---- MODULE Spec2Model ----
(***************************************************************************)
(* Model of the multimodal conversation state of the AI engine:            *)
(*   src/ai_engine/reasoning_chain/multimodal_state.py                     *)
(*     MultimodalReasoningState, MultimodalStateManager                    *)
(*   src/ai_engine/examples/unified_multimodal_example.py                  *)
(*     UnifiedMultimodalPipeline.process_multimodal_query                  *)
(* and of the guidance steps of the two services:                          *)
(*   src/ai_engine/guidance_generator.py  GuidanceGenerator                *)
(*   src/backend_service/api/routes.py    capture_text, send_message and   *)
(*                                        their fallback                   *)
(* and of two more services of the backend:                                *)
(*   src/backend_service/api/websocket.py  ConnectionManager,              *)
(*                                         handle_websocket                *)
(*   src/backend_service/service/tutoring_service.py  TutoringService      *)
(*                                                                         *)
(* Python values are encoded as follows.                                   *)
(*   Optional[x]   None is <<>>, a present value v is <<v>>                *)
(*   list          a sequence; Python index i is TLA+ index i + 1          *)
(*   dict          a function from keys (strings) to values                *)
(*   str           a text that is searched with "in" is a sequence of      *)
(*                 one-character tokens, written in pinyin; an opaque      *)
(*                 string (a URL) is a TLA+ string, "" being empty         *)
(*   datetime      a reading of the logical clock now                      *)
(*   float         a coordinate is written in tenths, 1.2 being 12         *)
(*   f-string      the tuple of its parts                                  *)
(***************************************************************************)
EXTENDS Integers, Sequences, FiniteSets, TLC

\* ------------------------------------------------------------------ bounds
\* Largest number of turns one state is driven to.
MaxTurns == 3
\* Largest length a referenced_in_turns list is driven to.
MaxRefs == 1
\* Largest reading of the logical clock.
MaxNow == 1

\* ------------------------------------------------------------ Python values
None == <<>>
Some(v) == <<v>>
TheVal(o) == o[1]

\* dict.get(key, default)
Get(d, key, default) == IF key \in DOMAIN d THEN d[key] ELSE default

\* Truth value of an Optional[str]: None and "" are both false.
Truthy(o) == o # None /\ TheVal(o) # ""

\* list[i] for a Python index i that is in range.
At(list, i) == list[i + 1]

\* list[start:] with Python's slice rules: a negative start counts from the
\* end, and the result is clipped to the list.
PySliceFrom(list, start) ==
    LET n == Len(list)
        lo == IF start < 0
              THEN (IF n + start < 0 THEN 0 ELSE n + start)
              ELSE (IF start > n THEN n ELSE start)
    IN SubSeq(list, lo + 1, n)

\* sorted(set of ints)
RECURSIVE Sorted(_)
Sorted(S) ==
    IF S = {} THEN <<>>
    ELSE LET m == CHOOSE x \in S : \A y \in S : x <= y
         IN <<m>> \o Sorted(S \ {m})

\* needle in haystack, for texts.
Contains(haystack, needle) ==
    \E i \in 1..(Len(haystack) - Len(needle) + 1) :
        SubSeq(haystack, i, i + Len(needle) - 1) = needle

\* x in list
InList(x, list) == \E i \in 1..Len(list) : list[i] = x

\* ------------------------------------------------------------------ markers
\* The substrings resolve_visual_reference looks for (multimodal_state.py
\* lines 164 and 166), one token per Chinese character.
MarkerDiYi == <<"di", "yi">>
MarkerZuiKaiShi == <<"zui", "kai", "shi">>
MarkerNaGe == <<"na", "ge">>
MarkerZheGe == <<"zhe", "ge">>
MarkerGangCai == <<"gang", "cai">>

\* ------------------------------------------------------------------- inputs
Sessions == {"s1"}
Users == {"u1", "u2"}

\* Query texts: an ordinal-first one, two proximal ones, one with both kinds
\* of marker (the proximal one first) and one with neither.
QFirst == <<"di", "yi", "zhang", "tu">>
QThat == <<"na", "ge", "san", "jiao", "xing">>
QJustNow == <<"gang", "cai", "de", "tu">>
QBoth == <<"zhe", "ge", "zui", "kai", "shi", "de", "tu">>
QOther == <<"zen", "me", "suan">>
Queries == {QFirst, QThat, QJustNow, QBoth, QOther}

\* user_input dicts handed to add_turn: the empty dict, and dicts with the
\* three keys the pipeline passes.  "" is an empty (false) locator.
EmptyDict == [k \in {} |-> None]
UserInput(text, image, audio) == [text |-> text, image |-> image, audio |-> audio]

\* cross_modal_alignment arguments: None, the dict the stub provider returns
\* (vlm_fusion.py lines 198-207, no image_understanding key), and a dict that
\* carries an image_understanding.
AlignStub == [vision_text_alignment |-> "aligned", explanation |-> "explained"]
AlignDesc == [image_understanding |-> "triangle"]

\* The (user_input, cross_modal_alignment) pairs add_turn is called with:
\* nothing at all, a text, a text with an image, a text with an empty image
\* locator and an audio clip, a text with an image, an audio clip and an
\* alignment.
AddTurnArgs ==
    {<<EmptyDict, None>>,
     <<UserInput(Some(QThat), None, None), None>>,
     <<UserInput(Some(QThat), Some("imgA"), None), None>>,
     <<UserInput(Some(QOther), Some(""), Some("audA")), None>>,
     <<UserInput(None, Some("imgB"), Some("audB")), Some(AlignDesc)>>}

\* assistant_output is stored and never read by the state.
AnswerOut == [content |-> "answer"]

VisualIndexArgs == (0 - 1)..MaxTurns
\* turn_id arguments: the first two ids and an id no turn ever gets.
TurnIdArgs == {1, 2, MaxTurns + 1}
\* max_turns arguments: negative, zero, one, two, and the
\* pipeline's 5.
MaxTurnsArgs == {0 - 1, 0, 1, 2, 5}

\* --------------------------------------------------------- record to_dict
\* VisualContext.to_dict: image_description is written under "description".
VisualContext_to_dict(ctx) ==
    [image_url |-> ctx.image_url,
     description |-> ctx.image_description,
     referenced_in_turns |-> ctx.referenced_in_turns]

AudioContext_to_dict(ctx) ==
    [audio_url |-> ctx.audio_url,
     transcription |-> ctx.transcription,
     referenced_in_turns |-> ctx.referenced_in_turns]

ReasoningTurn_to_dict(turn) ==
    [turn_id |-> turn.turn_id,
     user_input |-> turn.user_input,
     assistant_output |-> turn.assistant_output,
     cross_modal_alignment |-> turn.cross_modal_alignment,
     timestamp |-> turn.timestamp]

\* ------------------------------------------------ MultimodalReasoningState
\* __init__: both timestamps are read at construction, the pools and the turn
\* log are empty and no asset is active.
NewState(session_id, user_id, t) ==
    [session_id |-> session_id,
     user_id |-> user_id,
     created_at |-> t,
     updated_at |-> t,
     visual_contexts |-> <<>>,
     audio_contexts |-> <<>>,
     turns |-> <<>>,
     active_visual_index |-> None,
     active_audio_index |-> None]

\* Mutant of next_turn_id: the id is taken before the count is incremented.
next_turn_id_zero_based(st) == Len(st.turns)

\* add_turn, line 117: the id of the turn being added.
next_turn_id(st) == Len(st.turns) + 1

\* add_turn, lines 126 and 137: is a locator present under this key?
has_asset(user_input, key) == Truthy(Get(user_input, key, None))

\* add_turn, lines 127-132: the VisualContext built for a new image.
new_visual_ctx(user_input, cross_modal_alignment, turn_id) ==
    [image_url |-> TheVal(user_input["image"]),
     image_description |->
        IF cross_modal_alignment # None
        THEN Get(TheVal(cross_modal_alignment), "image_understanding", "")
        ELSE "",
     referenced_in_turns |-> <<turn_id>>]

\* Mutant of new_audio_ctx: line 143 is missing, the clip is not recorded as
\* referenced by its turn.
new_audio_ctx_unreferenced(user_input, turn_id) ==
    [audio_url |-> TheVal(user_input["audio"]),
     transcription |-> Get(user_input, "audio_transcription", ""),
     referenced_in_turns |-> <<>>]

\* add_turn, lines 138-142: the AudioContext built for a new audio clip.
new_audio_ctx(user_input, turn_id) ==
    [audio_url |-> TheVal(user_input["audio"]),
     transcription |-> Get(user_input, "audio_transcription", ""),
     referenced_in_turns |-> <<turn_id>>]

\* Mutant of fresh_active_index: the pointer is not set by an upload.
fresh_active_index_unset(pool) == None

\* Mutant of fresh_active_index: the length is taken for the last index.
fresh_active_index_past_end(pool) == Some(Len(pool))

\* add_turn, line 134 (and 144): the pointer after an append to the pool.
fresh_active_index(pool) == Some(Len(pool) - 1)

\* Mutant of add_turn: a turn without an asset clears the active pointers.
add_turn_resets_pointers(st, user_input, assistant_output, cross_modal_alignment, t) ==
    LET turn_id == next_turn_id(st)
        turn == [turn_id |-> turn_id,
                 user_input |-> user_input,
                 assistant_output |-> assistant_output,
                 cross_modal_alignment |-> cross_modal_alignment,
                 timestamp |-> t]
        visuals == IF has_asset(user_input, "image")
                   THEN Append(st.visual_contexts,
                               new_visual_ctx(user_input, cross_modal_alignment, turn_id))
                   ELSE st.visual_contexts
        audios == IF has_asset(user_input, "audio")
                  THEN Append(st.audio_contexts, new_audio_ctx(user_input, turn_id))
                  ELSE st.audio_contexts
    IN [st EXCEPT
          !.visual_contexts = visuals,
          !.active_visual_index =
              IF has_asset(user_input, "image") THEN fresh_active_index(visuals) ELSE None,
          !.audio_contexts = audios,
          !.active_audio_index =
              IF has_asset(user_input, "audio") THEN fresh_active_index(audios) ELSE None,
          !.turns = Append(st.turns, turn),
          !.updated_at = t]

\* add_turn: the state after the call; the turn it returns is the last of
\* turns.
add_turn(st, user_input, assistant_output, cross_modal_alignment, t) ==
    LET turn_id == next_turn_id(st)
        turn == [turn_id |-> turn_id,
                 user_input |-> user_input,
                 assistant_output |-> assistant_output,
                 cross_modal_alignment |-> cross_modal_alignment,
                 timestamp |-> t]
        visuals == IF has_asset(user_input, "image")
                   THEN Append(st.visual_contexts,
                               new_visual_ctx(user_input, cross_modal_alignment, turn_id))
                   ELSE st.visual_contexts
        audios == IF has_asset(user_input, "audio")
                  THEN Append(st.audio_contexts, new_audio_ctx(user_input, turn_id))
                  ELSE st.audio_contexts
    IN [st EXCEPT
          !.visual_contexts = visuals,
          !.active_visual_index =
              IF has_asset(user_input, "image") THEN fresh_active_index(visuals) ELSE @,
          !.audio_contexts = audios,
          !.active_audio_index =
              IF has_asset(user_input, "audio") THEN fresh_active_index(audios) ELSE @,
          !.turns = Append(st.turns, turn),
          !.updated_at = t]

\* resolve_visual_reference, line 164 and line 166: the two marker tests.
has_first_marker(text_query) ==
    Contains(text_query, MarkerDiYi) \/ Contains(text_query, MarkerZuiKaiShi)

has_proximal_marker(text_query) ==
    \/ Contains(text_query, MarkerNaGe)
    \/ Contains(text_query, MarkerZheGe)
    \/ Contains(text_query, MarkerGangCai)

\* Mutant of resolve_visual_reference: the proximal test comes first.
resolve_visual_reference_proximal_first(st, text_query) ==
    IF Len(st.visual_contexts) = 0 THEN None
    ELSE IF has_proximal_marker(text_query) /\ st.active_visual_index # None
         THEN st.active_visual_index
    ELSE IF Contains(text_query, MarkerDiYi) \/ Contains(text_query, MarkerZuiKaiShi)
         THEN Some(0)
    ELSE Some(Len(st.visual_contexts) - 1)

\* resolve_visual_reference: the Python index of the VisualContext object it
\* returns, or None.  A proximal query with no active image falls through to
\* the default.
resolve_visual_reference(st, text_query) ==
    IF Len(st.visual_contexts) = 0 THEN None
    ELSE IF has_first_marker(text_query) THEN Some(0)
    ELSE IF has_proximal_marker(text_query) /\ st.active_visual_index # None
         THEN st.active_visual_index
    ELSE Some(Len(st.visual_contexts) - 1)

\* Mutant of resolve_visual_reference_state: the resolved image is made the
\* active one.
resolve_visual_reference_state_sets_pointer(st, text_query) ==
    [st EXCEPT !.active_visual_index = resolve_visual_reference(st, text_query)]

\* resolve_visual_reference: the state after the call.  The body has no
\* assignment to self.
resolve_visual_reference_state(st, text_query) == st

\* Mutant of recent_turns_of: the window is cut from the start of the log,
\* turns[:max_turns].
recent_turns_of_oldest_first(st, max_turns) ==
    SubSeq(st.turns, 1, IF max_turns < 0 THEN Len(st.turns) + max_turns
                        ELSE IF max_turns > Len(st.turns) THEN Len(st.turns)
                        ELSE max_turns)

\* get_context_window, line 193.
recent_turns_of(st, max_turns) == PySliceFrom(st.turns, 0 - max_turns)

\* Mutant of referenced_ids: every context of the pool is collected.
referenced_ids_whole_pool(pool, recent_turns) == 0..(Len(pool) - 1)

\* get_context_window, lines 196-207: the Python indices of the contexts of
\* a pool that one of the recent turns references.
referenced_ids(pool, recent_turns) ==
    {i \in 0..(Len(pool) - 1) :
        \E k \in 1..Len(recent_turns) :
            InList(recent_turns[k].turn_id, At(pool, i).referenced_in_turns)}

\* get_context_window, lines 219-220.
active_visual_of(st) ==
    IF st.active_visual_index # None
    THEN Some(VisualContext_to_dict(At(st.visual_contexts, TheVal(st.active_visual_index))))
    ELSE None

\* Mutant of get_context_window: include_visual_context gates the audio
\* contexts as well.
get_context_window_flag_gates_audio(st, max_turns, include_visual_context) ==
    LET recent_turns == recent_turns_of(st, max_turns)
        visual_ids == Sorted(referenced_ids(st.visual_contexts, recent_turns))
        audio_ids == Sorted(referenced_ids(st.audio_contexts, recent_turns))
    IN [recent_turns |->
            [k \in 1..Len(recent_turns) |-> ReasoningTurn_to_dict(recent_turns[k])],
        visual_contexts |->
            IF include_visual_context
            THEN [k \in 1..Len(visual_ids) |->
                    VisualContext_to_dict(At(st.visual_contexts, visual_ids[k]))]
            ELSE <<>>,
        audio_contexts |->
            IF include_visual_context
            THEN [k \in 1..Len(audio_ids) |->
                    AudioContext_to_dict(At(st.audio_contexts, audio_ids[k]))]
            ELSE <<>>,
        active_visual |-> active_visual_of(st)]

\* get_context_window: the dict it returns.
get_context_window(st, max_turns, include_visual_context) ==
    LET recent_turns == recent_turns_of(st, max_turns)
        visual_ids == Sorted(referenced_ids(st.visual_contexts, recent_turns))
        audio_ids == Sorted(referenced_ids(st.audio_contexts, recent_turns))
    IN [recent_turns |-> [k \in 1..Len(recent_turns) |-> ReasoningTurn_to_dict(recent_turns[k])],
        visual_contexts |->
            IF include_visual_context
            THEN [k \in 1..Len(visual_ids) |->
                    VisualContext_to_dict(At(st.visual_contexts, visual_ids[k]))]
            ELSE <<>>,
        audio_contexts |->
            [k \in 1..Len(audio_ids) |->
                AudioContext_to_dict(At(st.audio_contexts, audio_ids[k]))],
        active_visual |-> active_visual_of(st)]

\* Mutant of visual_index_in_range: the upper bound is inclusive.
visual_index_in_range_inclusive(st, visual_index) ==
    0 <= visual_index /\ visual_index <= Len(st.visual_contexts)

\* Mutant of visual_index_in_range: the lower bound is not tested.
visual_index_in_range_no_lower_bound(st, visual_index) ==
    visual_index < Len(st.visual_contexts)

\* mark_visual_referenced, line 225.
visual_index_in_range(st, visual_index) ==
    0 <= visual_index /\ visual_index < Len(st.visual_contexts)

\* Mutant of mark_visual_referenced: line 227 is missing.
mark_visual_referenced_no_pointer(st, visual_index, turn_id) ==
    IF 0 <= visual_index /\ visual_index < Len(st.visual_contexts)
    THEN [st EXCEPT
            !.visual_contexts[visual_index + 1].referenced_in_turns = Append(@, turn_id)]
    ELSE st

\* Mutant of mark_visual_referenced: the list is assigned, not appended to.
mark_visual_referenced_overwrites(st, visual_index, turn_id) ==
    IF 0 <= visual_index /\ visual_index < Len(st.visual_contexts)
    THEN [st EXCEPT
            !.visual_contexts[visual_index + 1].referenced_in_turns = <<turn_id>>,
            !.active_visual_index = Some(visual_index)]
    ELSE st

\* mark_visual_referenced: the state after the call.  An index out of range
\* changes nothing; updated_at is not written.
mark_visual_referenced(st, visual_index, turn_id) ==
    IF visual_index_in_range(st, visual_index)
    THEN [st EXCEPT
            !.visual_contexts[visual_index + 1].referenced_in_turns = Append(@, turn_id),
            !.active_visual_index = Some(visual_index)]
    ELSE st

\* get_full_state: the dict that is persisted.
get_full_state(st) ==
    [session_id |-> st.session_id,
     user_id |-> st.user_id,
     created_at |-> st.created_at,
     updated_at |-> st.updated_at,
     visual_contexts |-> [k \in 1..Len(st.visual_contexts) |-> VisualContext_to_dict(st.visual_contexts[k])],
     audio_contexts |-> [k \in 1..Len(st.audio_contexts) |-> AudioContext_to_dict(st.audio_contexts[k])],
     turns |-> [k \in 1..Len(st.turns) |-> ReasoningTurn_to_dict(st.turns[k])],
     active_visual_index |-> st.active_visual_index,
     active_audio_index |-> st.active_audio_index]

\* from_dict: a state constructed from the two ids of the dict at time t;
\* nothing else of the dict is read (line 247 is a TODO).
from_dict(data, t) == NewState(data["session_id"], data["user_id"], t)

\* ---------------------------------------------------- MultimodalStateManager
\* Mutant of get_or_create_state: a state is constructed on every call.
get_or_create_state_always_new(store, session_id, user_id, t) ==
    [k \in DOMAIN store \cup {session_id} |->
        IF k = session_id THEN NewState(session_id, user_id, t) ELSE store[k]]

\* get_or_create_state: the store after the call; the state it returns is the
\* store's entry for session_id.
get_or_create_state(store, session_id, user_id, t) ==
    IF session_id \notin DOMAIN store
    THEN store @@ (session_id :> NewState(session_id, user_id, t))
    ELSE store

\* save_state: get_full_state is computed for a known session and dropped
\* (lines 271-273 are a TODO); the store is not written.
save_state(store, session_id) == store

\* Mutant of load_state: the commented-out path of lines 278-279, a state
\* rebuilt from the persisted dict.
load_state_from_snapshot(store, session_id) ==
    IF session_id \in DOMAIN store
    THEN Some(from_dict(get_full_state(store[session_id]),
                        store[session_id].created_at))
    ELSE None

\* load_state: self.states.get(session_id).
load_state(store, session_id) ==
    IF session_id \in DOMAIN store THEN Some(store[session_id]) ELSE None

\* -------------------------------------------------------------------- state
VARIABLES
    states,   \* MultimodalStateManager.states: session_id -> state
    now,      \* the clock datetime.now() reads
    last,     \* the last call made: its name, arguments and return value
    tasks,    \* the process_multimodal_query coroutines in flight
    session_store,  \* GuidanceGenerator.session_store: session_id -> result
    requests,  \* the capture_text and send_message calls of the backend in flight
    active_connections,  \* ConnectionManager.active_connections: user_id -> list
    progress,  \* the send_progress_update call in flight, if any
    sockets,  \* the handle_websocket coroutine of each WebSocket and its link
    sessions  \* TutoringService.sessions: session_id -> SessionContext

\* The variables of the conversation state, and those of the other services.
core == <<states, now, tasks>>
guidance == <<session_store, requests>>
realtime == <<active_connections, sockets, progress>>
others == <<session_store, requests, active_connections, sockets, progress, sessions>>
vars == <<states, now, last, tasks, session_store, requests, active_connections, sockets,
          progress, sessions>>

\* The backend's route coroutines, and one with no call in it.
MaxRequests == 1
Requests == 1..MaxRequests
IdleRequest == [pc |-> "idle"]

\* Largest number of WebSocket connections opened.
MaxSockets == 2

\* Largest number of tutoring sessions kept, and of messages in one of them.
MaxSessions == 2
MaxMessages == 5

\* The WebSocket objects, and the coroutine of one that is not accepted yet.
Sockets == 1..MaxSockets
NewSocket == [pc |-> "new", alive |-> TRUE]

Tasks == {1, 2}

\* A coroutine slot with no call in it.
IdleTask == [pc |-> "idle"]

\* max_turns as process_multimodal_query passes it.
PipelineMaxTurns == 5

\* The (text, image_url, audio_url, is_follow_up) arguments
\* process_multimodal_query is called with: an upload, a follow-up that names
\* the first image, a follow-up with an audio clip and no text, and a first
\* question with a text only.
PipelineArgs ==
    {<<None, Some("imgA"), None, FALSE>>,
     <<Some(QFirst), None, None, TRUE>>,
     <<None, None, Some("audA"), TRUE>>,
     <<Some(QOther), None, None, FALSE>>}

Init ==
    /\ states = [s \in {} |-> None]
    /\ now = 0
    /\ last = [op |-> "init"]
    /\ tasks = [t \in Tasks |-> IdleTask]
    /\ session_store = [k \in {} |-> None]
    /\ requests = [r \in Requests |-> IdleRequest]
    /\ active_connections = [k \in {} |-> <<>>]
    /\ sockets = [w \in Sockets |-> NewSocket]
    /\ progress = [pc |-> "idle"]
    /\ sessions = [k \in {} |-> None]

\* The number of entries mark_visual_referenced has added to the pool.
RECURSIVE SumLen(_, _)
SumLen(pool, n) ==
    IF n = 0 THEN 0 ELSE Len(pool[n].referenced_in_turns) - 1 + SumLen(pool, n - 1)
MarksIn(st) == SumLen(st.visual_contexts, Len(st.visual_contexts))

\* ------------------------------------------------------------------ actions
\* Time passes between two calls.
Tick ==
    /\ now < MaxNow
    /\ now' = now + 1
    /\ last' = [op |-> "tick"]
    /\ UNCHANGED <<states, tasks, others>>

GetOrCreateState(s, u) ==
    /\ states' = get_or_create_state(states, s, u, now)
    /\ last' = [op |-> "get_or_create_state", session_id |-> s, user_id |-> u,
                ret |-> states'[s]]
    /\ UNCHANGED <<now, tasks, others>>

AddTurn(s, user_input, cross_modal_alignment) ==
    /\ s \in DOMAIN states
    /\ Len(states[s].turns) < MaxTurns
    /\ states' = [states EXCEPT
                    ![s] = add_turn(@, user_input, AnswerOut, cross_modal_alignment, now)]
    /\ last' = [op |-> "add_turn", session_id |-> s, user_input |-> user_input,
                ret |-> states'[s].turns[Len(states'[s].turns)]]
    /\ UNCHANGED <<now, tasks, others>>

MarkVisualReferenced(s, visual_index, turn_id) ==
    /\ s \in DOMAIN states
    /\ MarksIn(states[s]) < MaxRefs
    /\ states' = [states EXCEPT ![s] = mark_visual_referenced(@, visual_index, turn_id)]
    /\ last' = [op |-> "mark_visual_referenced", session_id |-> s,
                visual_index |-> visual_index, turn_id |-> turn_id]
    /\ UNCHANGED <<now, tasks, others>>

ResolveVisualReference(s, text_query) ==
    /\ s \in DOMAIN states
    /\ last' = [op |-> "resolve_visual_reference", session_id |-> s,
                text_query |-> text_query,
                ret |-> resolve_visual_reference(states[s], text_query)]
    /\ states' = [states EXCEPT ![s] = resolve_visual_reference_state(@, text_query)]
    /\ UNCHANGED <<now, tasks, others>>

GetContextWindow(s, max_turns, include_visual_context) ==
    /\ s \in DOMAIN states
    /\ last' = [op |-> "get_context_window", session_id |-> s,
                max_turns |-> max_turns,
                include_visual_context |-> include_visual_context,
                ret |-> get_context_window(states[s], max_turns, include_visual_context)]
    /\ UNCHANGED <<states, now, tasks, others>>

SaveState(s) ==
    /\ states' = save_state(states, s)
    /\ last' = [op |-> "save_state", session_id |-> s]
    /\ UNCHANGED <<now, tasks, others>>

LoadState(s) ==
    /\ last' = [op |-> "load_state", session_id |-> s, ret |-> load_state(states, s)]
    /\ UNCHANGED <<states, now, tasks, others>>

Next ==
    \/ Tick
    \/ \E s \in Sessions, u \in Users : GetOrCreateState(s, u)
    \/ \E s \in Sessions, a \in AddTurnArgs : AddTurn(s, a[1], a[2])
    \/ \E s \in Sessions, i \in VisualIndexArgs, t \in TurnIdArgs :
          MarkVisualReferenced(s, i, t)
    \/ \E s \in Sessions, q \in Queries : ResolveVisualReference(s, q)
    \/ \E s \in Sessions, m \in MaxTurnsArgs, v \in BOOLEAN : GetContextWindow(s, m, v)
    \/ \E s \in Sessions : SaveState(s)
    \/ \E s \in Sessions : LoadState(s)

Spec == Init /\ [][Next]_vars

\* ------------------------------------------------ process_multimodal_query
\* text or ""
TextOrEmpty(text) == IF text = None \/ TheVal(text) = <<>> THEN <<>> ELSE TheVal(text)

\* Lines 50-55: the image_url local after reference resolution.  resolved is
\* the Python index of the VisualContext resolve_visual_reference returned.
resolved_image_url(st, image_url, resolved) ==
    IF resolved # None
    THEN Some(At(st.visual_contexts, TheVal(resolved)).image_url)
    ELSE image_url

\* Lines 86-90: the user_input handed to add_turn.
pipeline_user_input(task) ==
    UserInput(task.text, task.image_url, task.audio_url)

\* The number of coroutines in flight for a session.
InFlight(s) == Cardinality({t \in Tasks : tasks[t].pc # "idle" /\ tasks[t].session_id = s})

\* Mutant of pipeline_add_turn: the turn id is counted from the context
\* window built before the await on the Reasoning Provider.
pipeline_add_turn_stale_id(store, task, t) ==
    LET s == task.session_id
        st == add_turn(store[s], pipeline_user_input(task), AnswerOut,
                       Some(Get(TheVal(task.vlm_result), "cross_modal_alignment", None)), t)
        stale == Len(TheVal(task.context_window).recent_turns) + 1
    IN [store EXCEPT ![s] = [st EXCEPT !.turns[Len(st.turns)].turn_id = stale]]

\* Lines 85-97: the store after the add_turn call of the pipeline.
pipeline_add_turn(store, task, t) ==
    [store EXCEPT
        ![task.session_id] =
            add_turn(@, pipeline_user_input(task), AnswerOut,
                     Some(Get(TheVal(task.vlm_result), "cross_modal_alignment", None)), t)]

\* Mutant of pipeline_context_window: the window is built after the turn of
\* the query was appended.
pipeline_context_window_after_append(store, task) ==
    get_context_window(
        add_turn(store[task.session_id], pipeline_user_input(task), AnswerOut, None, 0),
        PipelineMaxTurns, TRUE)

\* Lines 66-69: the context window built for the query.
pipeline_context_window(store, task) ==
    get_context_window(store[task.session_id], PipelineMaxTurns, TRUE)

\* Lines 47-58: the call up to the await on the Understanding Provider.  Of
\* the locals, those read after the await are kept, and resolved_visual.
PStart(t, s, u, text, image_url, audio_url, is_follow_up) ==
    /\ tasks[t].pc = "idle"
    /\ (IF s \in DOMAIN states THEN Len(states[s].turns) ELSE 0) + InFlight(s) < MaxTurns
    /\ states' = get_or_create_state(states, s, u, now)
    /\ LET st == states'[s]
           resolved == IF is_follow_up /\ ~Truthy(image_url)
                       THEN resolve_visual_reference(st, TextOrEmpty(text))
                       ELSE None
       IN tasks' = [tasks EXCEPT ![t] =
                      [pc |-> "fuse",
                       session_id |-> s,
                       text |-> text,
                       image_url |-> resolved_image_url(st, image_url, resolved),
                       audio_url |-> audio_url,
                       resolved |-> resolved,
                       vlm_result |-> None,
                       context_window |-> None]]
    /\ last' = [op |-> "process_multimodal_query", task |-> t, outcome |-> "await_fuse",
                calls |-> <<"get_or_create_state">>
                          \o (IF is_follow_up /\ ~Truthy(image_url)
                              THEN <<"resolve_visual_reference">> ELSE <<>>)
                          \o <<"fuse_modalities">>]
    /\ UNCHANGED <<now, others>>

\* The call leaves by an exception: nothing in process_multimodal_query
\* catches it, so the rest of the body is skipped.
PRaise(t) ==
    /\ tasks' = [tasks EXCEPT ![t] = IdleTask]
    /\ last' = [op |-> "process_multimodal_query", task |-> t, outcome |-> "raised",
                calls |-> <<>>]
    /\ UNCHANGED <<states, now, others>>

\* Lines 58-78: fuse_modalities returns (or raises), then the context window
\* is built, up to the await on the Reasoning Provider.
PFuseReturn(t, ok) ==
    /\ tasks[t].pc = "fuse"
    /\ IF ok
       THEN /\ tasks' = [tasks EXCEPT
                  ![t].pc = "reason",
                  ![t].vlm_result = Some([understanding |-> "understood",
                                          cross_modal_alignment |-> AlignStub]),
                  ![t].context_window =
                      Some(pipeline_context_window(states, tasks[t]))]
            /\ last' = [op |-> "process_multimodal_query", task |-> t,
                        outcome |-> "await_reason",
                        calls |-> <<"get_context_window", "reason">>]
            /\ UNCHANGED <<states, now, others>>
       ELSE PRaise(t)

\* Lines 78-102: reason returns (or raises), then the turn is added, the
\* state saved and the answer returned.  last keeps the context window that
\* was passed to the Reasoning Provider.
PReasonReturn(t, ok) ==
    /\ tasks[t].pc = "reason"
    /\ IF ok
       THEN LET s == tasks[t].session_id
                added == pipeline_add_turn(states, tasks[t], now)
            IN /\ states' = save_state(added, s)
               /\ tasks' = [tasks EXCEPT ![t] = IdleTask]
               /\ last' = [op |-> "process_multimodal_query", task |-> t,
                           outcome |-> "returned",
                           calls |-> <<"add_turn", "save_state">>,
                           context_window |-> TheVal(tasks[t].context_window),
                           ret |-> [session_id |-> s,
                                    turn_id |-> added[s].turns[Len(added[s].turns)].turn_id,
                                    total_visual_contexts |-> Len(added[s].visual_contexts),
                                    total_turns |-> Len(added[s].turns),
                                    current_active_visual |-> added[s].active_visual_index]]
               /\ UNCHANGED <<now, others>>
       ELSE PRaise(t)

NextPipeline ==
    \/ Tick
    \/ \E t \in Tasks, s \in Sessions, u \in Users, a \in PipelineArgs :
          PStart(t, s, u, a[1], a[2], a[3], a[4])
    \/ \E t \in Tasks, ok \in BOOLEAN : PFuseReturn(t, ok)
    \/ \E t \in Tasks, ok \in BOOLEAN : PReasonReturn(t, ok)

SpecPipeline == Init /\ [][NextPipeline]_vars

\* ---------------------------------------------------------- guidance steps
\* Largest number of results GuidanceGenerator.session_store is driven to.
MaxStored == 2

\* The keywords _generate_initial_steps looks for (guidance_generator.py
\* line 78), one token per Chinese character: triangle, quadrilateral,
\* circle, cube, plane, auxiliary line, geometry.
GeometryKeywords ==
    {<<"san", "jiao", "xing">>, <<"si", "bian", "xing">>, <<"yuan">>,
     <<"li", "fang", "ti">>, <<"ping", "mian">>, <<"fu", "zhu", "xian">>,
     <<"ji", "he">>}

\* Questions: a geometry one, one that is not, and the empty text.
ContentTriangle == <<"qiu", "san", "jiao", "xing", "mian", "ji">>
ContentEquation == <<"jie", "fang", "cheng">>
GuidanceContents == {ContentTriangle, ContentEquation, <<>>}

\* uuid4 values, session ids a caller supplies, and step ids asked about.
Uuids == {"a1", "b2"}

\* The two uuid4 values drawn while one request is answered.
UuidPairs == {u \in Uuids \X Uuids : u[1] # u[2]}
GivenSessionIds == {None, Some(<<"sess_x">>)}
GivenStepIds == {None, Some("step_draw_diagram")}

\* The status the AI engine answers the backend with, or an exception of the
\* HTTP call.
EngineOutcomes == {"200", "500", "raise"}

Step(step_id, title, hint, type) ==
    [step_id |-> step_id, title |-> title, hint |-> hint, type |-> type]

\* A step with a "geometry" key.
GeometryStep(step_id, title, hint, geometry) ==
    [step_id |-> step_id, title |-> title, hint |-> hint, type |-> "geometry",
     geometry |-> geometry]

\* Mutant of generate_geometry_demo: point C is given in the plane, with two
\* coordinates.
generate_geometry_demo_flat_point(content) ==
    [objects |->
        <<[type |-> "line", coords |-> << <<0, 0, 0>>, <<12, 12, 8>> >>,
           label |-> "AC", step_id |-> "step_draw_diagram", color |-> "#1E88E5"],
          [type |-> "point", coords |-> << <<0, 0, 0>> >>,
           label |-> "A", step_id |-> "step_draw_diagram"],
          [type |-> "point", coords |-> << <<12, 12>> >>,
           label |-> "C", step_id |-> "step_draw_diagram"]>>]

\* GuidanceGenerator._generate_geometry_demo: the same four objects for
\* every content.
generate_geometry_demo(content) ==
    [objects |->
        <<[type |-> "line", coords |-> << <<0, 0, 0>>, <<12, 12, 8>> >>,
           label |-> "AC", step_id |-> "step_draw_diagram", color |-> "#1E88E5"],
          [type |-> "point", coords |-> << <<0, 0, 0>> >>,
           label |-> "A", step_id |-> "step_draw_diagram"],
          [type |-> "point", coords |-> << <<12, 12, 8>> >>,
           label |-> "C", step_id |-> "step_draw_diagram"],
          [type |-> "face",
           coords |-> << <<0, 0, 0>>, <<12, 0, 0>>, <<12, 12, 0>>, <<0, 12, 0>> >>,
           label |-> "ABCD", step_id |-> "step_draw_diagram", color |-> "#FFA726"]>>]

\* _generate_initial_steps, lines 76-79.
is_geometry_problem(content) == \E kw \in GeometryKeywords : Contains(content, kw)

\* GuidanceGenerator._generate_initial_steps.
generate_initial_steps(content) ==
    <<Step("step_read_problem", "read", <<"problem", content>>, "understand")>>
    \o (IF is_geometry_problem(content)
        THEN <<GeometryStep("step_draw_diagram", "draw", <<"draw">>,
                            generate_geometry_demo(content)),
               Step("step_find_relation", "relate", <<"relate">>, "analysis"),
               Step("step_solve", "solve", <<"solve">>, "solve")>>
        ELSE <<Step("step_list_knowns", "knowns", <<"knowns">>, "analysis"),
               Step("step_choose_method", "method", <<"method">>, "method"),
               Step("step_try_solve", "try", <<"try">>, "solve")>>)
    \o <<Step("step_verify", "verify", <<"verify">>, "verify")>>

\* GuidanceGenerator._generate_detail_steps.
generate_detail_steps(content, parent_step_id) ==
    <<Step(<<parent_step_id, "_detail_1">>, <<"about", parent_step_id>>,
           <<"core">>, "detail"),
      Step(<<parent_step_id, "_detail_2">>, <<"pitfalls">>, <<"units">>, "hint"),
      Step(<<parent_step_id, "_example">>, <<"examples">>, <<"recall">>, "example")>>

\* GuidanceGenerator.generate_guidance_steps: the result it returns and
\* stores; u1 and u2 are the uuid4 values drawn for the session and task ids.
generate_guidance_steps(user_id, content, session_id, step_id, u1, u2) ==
    [session_id |->
        IF session_id = None \/ TheVal(session_id) = <<>>
        THEN <<"session", user_id, u1>>
        ELSE TheVal(session_id),
     task_id |-> <<"task", u2>>,
     steps |->
        IF Truthy(step_id)
        THEN generate_detail_steps(content, TheVal(step_id))
        ELSE generate_initial_steps(content)]

\* routes._demo_geometry_steps_from_text.
demo_geometry_steps_from_text(content) ==
    <<Step("step_understand_problem", "read",
           IF content = <<>> THEN <<"read", "the", "problem">> ELSE content,
           "understand"),
      GeometryStep("step_draw_helper_line", "draw AC", <<"add", "AC">>,
          [objects |->
              <<[type |-> "line", coords |-> << <<0, 0, 0>>, <<10, 10, 10>> >>,
                 label |-> "AC", step_id |-> "step_draw_helper_line"],
                [type |-> "point", coords |-> << <<0, 0, 0>> >>,
                 label |-> "A", step_id |-> "step_draw_helper_line"],
                [type |-> "face",
                 coords |-> << <<0, 0, 0>>, <<10, 0, 0>>, <<10, 10, 0>> >>,
                 label |-> "ABC", step_id |-> "step_draw_helper_line"]>>]),
      Step("step_solve", "derive", <<"derive">>, "solve")>>

\* Truth value of an Optional session id: None and the empty id are false.
TruthyId(o) == o # None /\ TheVal(o) # <<>>

\* Mutant of fallback_guidance_steps: the session id asked for is dropped and
\* the follow-up step is left out.
fallback_guidance_steps_forgets_request(content, user_id, session_id, step_id) ==
    [session_id |-> <<"session", user_id, "fallback">>,
     task_id |-> <<"fallback", <<"session", user_id, "fallback">> >>,
     steps |-> demo_geometry_steps_from_text(content)]

\* routes._fallback_guidance_steps.
fallback_guidance_steps(content, user_id, session_id, step_id) ==
    LET sid == IF session_id = None \/ TheVal(session_id) = <<>>
               THEN <<"session", user_id, "fallback">>
               ELSE TheVal(session_id)
    IN [session_id |-> sid,
        task_id |-> <<"fallback", sid>>,
        steps |->
            demo_geometry_steps_from_text(content)
            \o (IF Truthy(step_id)
                THEN <<Step(<<TheVal(step_id), "_detail">>,
                            <<"about", TheVal(step_id)>>, <<"degraded">>, "detail")>>
                ELSE <<>>)]

\* session_store[session_id] = result, line 68.
store_result(store, result) ==
    [k \in DOMAIN store \cup {result.session_id} |->
        IF k = result.session_id THEN result ELSE store[k]]

CanStore(session_id) ==
    \/ Cardinality(DOMAIN session_store) < MaxStored
    \/ (session_id # None /\ TheVal(session_id) \in DOMAIN session_store)

\* POST /api/guidance/generate of the AI engine (ai_engine/main.py), called
\* by a client of the engine.  The handler awaits nothing that suspends, so
\* the engine serves one request in one step.
GenerateGuidance(user_id, content, session_id, step_id, u1, u2) ==
    /\ CanStore(session_id)
    /\ LET result == generate_guidance_steps(user_id, content, session_id, step_id, u1, u2)
       IN /\ session_store' = store_result(session_store, result)
          /\ last' = [op |-> "generate_guidance", user_id |-> user_id,
                      content |-> content, session_id |-> session_id,
                      step_id |-> step_id, ret |-> result]
    /\ UNCHANGED <<core, requests, realtime, sessions>>

\* SessionMessage values (user_id, content, session_id, step_id): the ids
\* each absent, empty or set.
MessageArgs ==
    {<<"u1", ContentTriangle, None, None>>,
     <<"u2", ContentEquation, None, Some("step_draw_diagram")>>,
     <<"u1", <<>>, Some(<<>>), Some("")>>,
     <<"u1", ContentEquation, Some(<<"sess_x">>), None>>,
     <<"u2", ContentTriangle, Some(<<"sess_x">>), Some("step_draw_diagram")>>,
     <<"u1", <<>>, Some(<<"sess_x">>), Some("step_draw_diagram")>>}

\* send_message, lines 351 and 357: message.session_id or the "_001" id.
send_message_session_id(user_id, session_id) ==
    IF TruthyId(session_id) THEN session_id ELSE Some(<<"session", user_id, "001">>)

\* capture_text, lines 115-124: the request is posted to the engine and the
\* route waits for the response.  The body carries user_id and content only.
CaptureTextPost(r, user_id, content) ==
    /\ requests[r].pc = "idle"
    /\ requests' = [requests EXCEPT ![r] =
                      [pc |-> "posted", op |-> "capture_text", user_id |-> user_id,
                       content |-> content, session_id |-> None, step_id |-> None]]
    /\ last' = [op |-> "post", route |-> "capture_text", request |-> r]
    /\ UNCHANGED <<core, session_store, realtime, sessions>>

\* send_message, lines 334-345: the request is posted with the session_id
\* and step_id of the message and the route waits for the response.
SendMessagePost(r, user_id, content, session_id, step_id) ==
    /\ requests[r].pc = "idle"
    /\ requests' = [requests EXCEPT ![r] =
                      [pc |-> "posted", op |-> "send_message", user_id |-> user_id,
                       content |-> content, session_id |-> session_id,
                       step_id |-> step_id]]
    /\ last' = [op |-> "post", route |-> "send_message", request |-> r]
    /\ UNCHANGED <<core, session_store, realtime, sessions>>

\* The engine serves the request a route has posted: generate_guidance runs,
\* writes session_store, and its response is on the way to the route.
EngineServes(r, u1, u2) ==
    /\ requests[r].pc = "posted"
    /\ CanStore(requests[r].session_id)
    /\ LET q == requests[r]
           result == generate_guidance_steps(q.user_id, q.content, q.session_id,
                                             q.step_id, u1, u2)
       IN /\ session_store' = store_result(session_store, result)
          /\ requests' = [requests EXCEPT ![r] =
                            [q EXCEPT !.pc = "answered"] @@ [response |-> result]]
          /\ last' = [op |-> "generate_guidance", user_id |-> q.user_id,
                      content |-> q.content, session_id |-> q.session_id,
                      step_id |-> q.step_id, ret |-> result]
    /\ UNCHANGED <<core, realtime, sessions>>

\* The dict a route returns when the await on client.post is over: the
\* engine's response for a 200, the local fallback for another status and
\* for an exception.  send_message passes its own session id to the fallback.
route_result(q, engine) ==
    IF engine = "200" THEN q.response
    ELSE IF q.op = "send_message"
    THEN fallback_guidance_steps(q.content, q.user_id,
                                 send_message_session_id(q.user_id, q.session_id),
                                 q.step_id)
    ELSE fallback_guidance_steps(q.content, q.user_id, None, None)

\* The await on client.post can end with a 200 once the engine has served
\* the request, with another status when it has not, and with an exception
\* (no connection, or a timeout after the engine has served) at any time.
CanEnd(q, engine) ==
    \/ engine = "200" /\ q.pc = "answered"
    \/ engine = "500" /\ q.pc = "posted"
    \/ engine = "raise" /\ q.pc \in {"posted", "answered"}

\* capture_text, lines 126-135: the route returns.
CaptureTextReturn(r, engine) ==
    /\ requests[r].pc # "idle"
    /\ requests[r].op = "capture_text"
    /\ CanEnd(requests[r], engine)
    /\ requests' = [requests EXCEPT ![r] = IdleRequest]
    /\ last' = [op |-> "capture_text", user_id |-> requests[r].user_id,
                content |-> requests[r].content, engine |-> engine,
                ret |-> route_result(requests[r], engine)]
    /\ UNCHANGED <<core, session_store, realtime, sessions>>

\* send_message, lines 347-358: the route returns.
SendMessageReturn(r, engine) ==
    /\ requests[r].pc # "idle"
    /\ requests[r].op = "send_message"
    /\ CanEnd(requests[r], engine)
    /\ requests' = [requests EXCEPT ![r] = IdleRequest]
    /\ last' = [op |-> "send_message", user_id |-> requests[r].user_id,
                content |-> requests[r].content,
                session_id |-> requests[r].session_id,
                step_id |-> requests[r].step_id, engine |-> engine,
                ret |-> route_result(requests[r], engine)]
    /\ UNCHANGED <<core, session_store, realtime, sessions>>

NextGuidance ==
    \/ \E user_id \in Users, content \in GuidanceContents,
          session_id \in GivenSessionIds, step_id \in GivenStepIds,
          u \in UuidPairs :
          GenerateGuidance(user_id, content, session_id, step_id, u[1], u[2])
    \/ \E r \in Requests, user_id \in Users, content \in GuidanceContents :
          CaptureTextPost(r, user_id, content)
    \/ \E r \in Requests, m \in MessageArgs :
          SendMessagePost(r, m[1], m[2], m[3], m[4])
    \/ \E r \in Requests, u \in UuidPairs : EngineServes(r, u[1], u[2])
    \/ \E r \in Requests, engine \in EngineOutcomes : CaptureTextReturn(r, engine)
    \/ \E r \in Requests, engine \in EngineOutcomes : SendMessageReturn(r, engine)

SpecGuidance == Init /\ [][NextGuidance]_vars

\* ------------------------------------------------------ ConnectionManager
\* The message types handle_websocket tells apart, and a text that is not
\* JSON.
MessageTypes == {"chat", "ping", "other"}
ReceivedData == MessageTypes \cup {"not json"}

\* ConnectionManager.connect, after the accept.
connect(conns, websocket, user_id) ==
    [k \in DOMAIN conns \cup {user_id} |->
        IF k = user_id
        THEN Append(IF user_id \in DOMAIN conns THEN conns[user_id] ELSE <<>>, websocket)
        ELSE conns[k]]

\* list.remove(x) for an x that is in the list: the first occurrence goes.
list_remove(list, x) ==
    LET i == CHOOSE i \in 1..Len(list) :
                 list[i] = x /\ \A j \in 1..(i - 1) : list[j] # x
    IN SubSeq(list, 1, i - 1) \o SubSeq(list, i + 1, Len(list))

\* ConnectionManager.disconnect: the connections after the call, and whether
\* list.remove raised ValueError because the websocket is not in the list.
disconnect(conns, websocket, user_id) ==
    IF user_id \notin DOMAIN conns
    THEN [conns |-> conns, raised |-> FALSE]
    ELSE IF ~InList(websocket, conns[user_id])
    THEN [conns |-> conns, raised |-> TRUE]
    ELSE LET rest == list_remove(conns[user_id], websocket)
         IN [conns |-> IF rest = <<>>
                       THEN [k \in DOMAIN conns \ {user_id} |-> conns[k]]
                       ELSE [conns EXCEPT ![user_id] = rest],
             raised |-> FALSE]

\* send_personal_message, lines 45-46: disconnect for each connection whose
\* send failed, up to the first call that raises.
RECURSIVE disconnect_each(_, _, _)
disconnect_each(conns, disconnected, user_id) ==
    IF disconnected = <<>>
    THEN [conns |-> conns, raised |-> FALSE]
    ELSE LET d == disconnect(conns, Head(disconnected), user_id)
         IN IF d.raised THEN d
            ELSE disconnect_each(d.conns, Tail(disconnected), user_id)

\* A send_json to the connection can complete: its link is up and its
\* handler has not returned.
Sendable(c) == sockets[c].alive /\ sockets[c].pc # "ended"

\* send_personal_message, lines 37-40, for a user that has connections: the
\* loop takes the first connection of the list and is suspended in the
\* await on its send_json.  pos counts the connections the iterator has
\* passed; orphaned says that the list the iterator holds is no longer the
\* one in active_connections; up says that the send started on a connection
\* that could take it.
first_send(conns, user_id) ==
    [user_id |-> user_id, conn |-> conns[user_id][1], pos |-> 1,
     disconnected |-> <<>>, orphaned |-> FALSE, up |-> Sendable(conns[user_id][1])]

\* The outcomes of the send in flight: it raises on a connection that cannot
\* take it, unless it started while the connection could.
CanFail(send, failed) ==
    IF failed THEN ~Sendable(send.conn) ELSE Sendable(send.conn) \/ send.up

\* send_personal_message, lines 38-46, when the await on send_json is over:
\* a failed connection joins disconnected, and the iterator looks at the
\* list as it is now.  With a connection left the loop is suspended in the
\* next send_json; without one the cleanup loop runs.
next_send(conns, send, failed) ==
    LET user_id == send.user_id
        disc == IF failed THEN Append(send.disconnected, send.conn)
                ELSE send.disconnected
        more == /\ ~send.orphaned
                /\ user_id \in DOMAIN conns
                /\ send.pos < Len(conns[user_id])
    IN IF more
       THEN [done |-> FALSE,
             send |-> [send EXCEPT !.conn = conns[user_id][send.pos + 1],
                                   !.pos = send.pos + 1,
                                   !.disconnected = disc,
                                   !.up = Sendable(conns[user_id][send.pos + 1])]]
       ELSE [done |-> TRUE, cleanup |-> disconnect_each(conns, disc, user_id)]

\* disconnect, lines 30-31, seen from a loop of send_personal_message that
\* is suspended: when the user's key is deleted, the list the loop iterates
\* is empty and stays out of active_connections, whatever connect does next.
orphaned_send(x, before, after) ==
    IF x.pc = "sending" /\ x.send.user_id \in DOMAIN before \ DOMAIN after
    THEN [x EXCEPT !.send.orphaned = TRUE]
    ELSE x

\* The handlers and the progress call after active_connections went from
\* before to after.
orphaned_sockets(socks, before, after) ==
    [w \in Sockets |-> orphaned_send(socks[w], before, after)]

\* A handler waiting in receive_text.
OpenSocket(w) == [pc |-> "open", alive |-> sockets[w].alive, user_id |-> sockets[w].user_id]

\* A handler that has returned.
EndedSocket(w) == [pc |-> "ended", alive |-> sockets[w].alive, user_id |-> sockets[w].user_id]

\* handle_websocket, line 66: the connection is accepted and registered.
WsConnect(w, user_id) ==
    /\ sockets[w].pc = "new"
    /\ active_connections' = connect(active_connections, w, user_id)
    /\ sockets' = [sockets EXCEPT ![w] = [pc |-> "open", alive |-> TRUE, user_id |-> user_id]]
    /\ last' = [op |-> "connect", websocket |-> w, user_id |-> user_id]
    /\ UNCHANGED <<core, guidance, progress, sessions>>

\* The link of a connection goes down: from now on a send to it fails and
\* its receive_text raises WebSocketDisconnect.
WsLinkDown(w) ==
    /\ sockets[w].pc \in {"open", "chat", "sending"}
    /\ sockets[w].alive
    /\ sockets' = [sockets EXCEPT ![w].alive = FALSE]
    /\ last' = [op |-> "link_down", websocket |-> w]
    /\ UNCHANGED <<core, guidance, active_connections, progress, sessions>>

\* handle_websocket, lines 80, 84 and 90: the handler of w calls
\* send_personal_message.  Without connections of the user the call returns
\* at once and the handler waits in receive_text again.
WsSend(w, type) ==
    LET user_id == sockets[w].user_id
    IN /\ IF user_id \in DOMAIN active_connections
          THEN /\ sockets' = [sockets EXCEPT ![w] =
                                [pc |-> "sending", alive |-> sockets[w].alive,
                                 user_id |-> user_id,
                                 send |-> first_send(active_connections, user_id)]]
               /\ last' = [op |-> "send_json", websocket |-> w, user_id |-> user_id,
                           type |-> type]
          ELSE /\ sockets' = [sockets EXCEPT ![w] = OpenSocket(w)]
               /\ last' = [op |-> "send_personal_message", websocket |-> w,
                           user_id |-> user_id, raised |-> FALSE]
       /\ UNCHANGED <<core, guidance, active_connections, progress, sessions>>

\* handle_websocket, lines 71-93 and 97-99: a text is received.  A text that
\* is not JSON leaves by the except Exception branch; a chat waits in the
\* asyncio.sleep of process_chat_message; the other types go to the send.
WsReceive(w, data) ==
    /\ sockets[w].pc = "open"
    /\ sockets[w].alive
    /\ IF data = "not json"
       THEN LET closed == disconnect(active_connections, w, sockets[w].user_id)
                ended == [sockets EXCEPT ![w] = EndedSocket(w)]
            IN /\ active_connections' = closed.conns
               /\ sockets' = orphaned_sockets(ended, active_connections, closed.conns)
               /\ progress' = orphaned_send(progress, active_connections, closed.conns)
               /\ last' = [op |-> "disconnect", websocket |-> w,
                           user_id |-> sockets[w].user_id, raised |-> closed.raised,
                           cleanup_raised |-> FALSE]
               /\ UNCHANGED <<core, guidance, sessions>>
       ELSE IF data = "chat"
       THEN /\ sockets' = [sockets EXCEPT ![w].pc = "chat"]
            /\ last' = [op |-> "receive_text", websocket |-> w, type |-> data]
            /\ UNCHANGED <<core, guidance, active_connections, progress, sessions>>
       ELSE WsSend(w, data)

\* process_chat_message, lines 110-118, and handle_websocket, line 80: the
\* sleep is over and the response goes to the send.
WsChatDone(w) ==
    /\ sockets[w].pc = "chat"
    /\ WsSend(w, "chat")

\* send_personal_message, lines 38-46, in the handler of w: the await on
\* send_json is over.  An exception out of the cleanup loop leaves
\* send_personal_message and is caught on line 97, where the handler calls
\* disconnect and returns.
WsSendResume(w, failed) ==
    /\ sockets[w].pc = "sending"
    /\ CanFail(sockets[w].send, failed)
    /\ LET user_id == sockets[w].user_id
           n == next_send(active_connections, sockets[w].send, failed)
       IN IF ~n.done
          THEN /\ sockets' = [sockets EXCEPT ![w].send = n.send]
               /\ last' = [op |-> "send_json", websocket |-> w, user_id |-> user_id,
                           failed |-> failed]
               /\ UNCHANGED <<active_connections, progress>>
          ELSE IF ~n.cleanup.raised
          THEN LET open == [sockets EXCEPT ![w] = OpenSocket(w)]
               IN /\ active_connections' = n.cleanup.conns
                  /\ sockets' = orphaned_sockets(open, active_connections, n.cleanup.conns)
                  /\ progress' = orphaned_send(progress, active_connections,
                                               n.cleanup.conns)
                  /\ last' = [op |-> "send_personal_message", websocket |-> w,
                              user_id |-> user_id, raised |-> FALSE]
          ELSE LET closed == disconnect(n.cleanup.conns, w, user_id)
                   ended == [sockets EXCEPT ![w] = EndedSocket(w)]
               IN /\ active_connections' = closed.conns
                  /\ sockets' = orphaned_sockets(ended, active_connections, closed.conns)
                  /\ progress' = orphaned_send(progress, active_connections, closed.conns)
                  /\ last' = [op |-> "disconnect", websocket |-> w, user_id |-> user_id,
                              raised |-> closed.raised, cleanup_raised |-> TRUE]
    /\ UNCHANGED <<core, guidance, sessions>>

\* handle_websocket, lines 95-96: receive_text raises WebSocketDisconnect and
\* the handler calls disconnect.
WsDisconnected(w) ==
    /\ sockets[w].pc = "open"
    /\ ~sockets[w].alive
    /\ LET closed == disconnect(active_connections, w, sockets[w].user_id)
           ended == [sockets EXCEPT ![w] = EndedSocket(w)]
       IN /\ active_connections' = closed.conns
          /\ sockets' = orphaned_sockets(ended, active_connections, closed.conns)
          /\ progress' = orphaned_send(progress, active_connections, closed.conns)
          /\ last' = [op |-> "disconnect", websocket |-> w,
                      user_id |-> sockets[w].user_id, raised |-> closed.raised,
                      cleanup_raised |-> FALSE]
    /\ UNCHANGED <<core, guidance, sessions>>

\* send_progress_update, lines 121-130: a task of the service calls
\* send_personal_message for the user.  Without connections of the user the
\* call returns at once.
SendProgressUpdate(user_id) ==
    /\ progress.pc = "idle"
    /\ IF user_id \in DOMAIN active_connections
       THEN /\ progress' = [pc |-> "sending",
                            send |-> first_send(active_connections, user_id)]
            /\ last' = [op |-> "send_json", user_id |-> user_id, type |-> "progress"]
       ELSE /\ progress' = progress
            /\ last' = [op |-> "send_progress_update", user_id |-> user_id,
                        raised |-> FALSE]
    /\ UNCHANGED <<core, guidance, active_connections, sockets, sessions>>

\* send_personal_message, lines 38-46, in send_progress_update: the await on
\* send_json is over.  An exception out of the cleanup loop goes to the
\* caller of send_progress_update.
ProgressSendResume(failed) ==
    /\ progress.pc = "sending"
    /\ CanFail(progress.send, failed)
    /\ LET user_id == progress.send.user_id
           n == next_send(active_connections, progress.send, failed)
       IN IF ~n.done
          THEN /\ progress' = [progress EXCEPT !.send = n.send]
               /\ last' = [op |-> "send_json", user_id |-> user_id, failed |-> failed]
               /\ UNCHANGED <<active_connections, sockets>>
          ELSE /\ active_connections' = n.cleanup.conns
               /\ sockets' = orphaned_sockets(sockets, active_connections,
                                              n.cleanup.conns)
               /\ progress' = [pc |-> "idle"]
               /\ last' = [op |-> "send_progress_update", user_id |-> user_id,
                           raised |-> n.cleanup.raised]
    /\ UNCHANGED <<core, guidance, sessions>>

NextRealtime ==
    \/ \E w \in Sockets, user_id \in Users : WsConnect(w, user_id)
    \/ \E w \in Sockets : WsLinkDown(w)
    \/ \E w \in Sockets, data \in ReceivedData : WsReceive(w, data)
    \/ \E w \in Sockets : WsChatDone(w)
    \/ \E w \in Sockets, failed \in BOOLEAN : WsSendResume(w, failed)
    \/ \E w \in Sockets : WsDisconnected(w)
    \/ \E user_id \in Users : SendProgressUpdate(user_id)
    \/ \E failed \in BOOLEAN : ProgressSendResume(failed)

SpecRealtime == Init /\ [][NextRealtime]_vars

\* -------------------------------------------------------- TutoringService
\* The keywords of a "why this line" follow-up (tutoring_service.py line
\* 162), one token per Chinese character.
WhyKeywords ==
    {<<"wei", "shen", "me", "yao", "lian">>, <<"wei", "shen", "me", "lian">>,
     <<"wei", "shen", "me", "yao", "hua">>,
     <<"wei", "shen", "me", "yao", "jia", "zhe", "yi", "tiao">>}

\* The welcome text, the default explanation and the demo command of the
\* placeholder answer.
WelcomeText == <<"nin", "hao">>
DefaultReason == <<"quan", "deng", "san", "jiao", "xing">>
DemoCommand == [type |-> "draw_line", label |-> "AC", reason |-> <<"fen", "jie">>]

\* User texts: a follow-up with a blank in front, and another question.
TextWhy == <<" ", "wei", "shen", "me", "lian", "AC">>
TextArea == <<"mian", "ji">>

\* visual_commands a caller passes: a circle, and a line with a reason.
CommandsCircle == <<[type |-> "draw_circle"]>>
CommandsLine == <<[type |-> "draw_circle"], [type |-> "draw_line", reason |-> <<"gou", "gu">>]>>

\* The (session_id, user_id, content, visual_commands) arguments of
\* process_user_message: the session id empty or set, the commands absent,
\* empty or set.
ProcessArgs ==
    {<<Some(<<"t1">>), "u1", TextArea, None>>,
     <<Some(<<"t1">>), "u1", TextWhy, Some(<<>>)>>,
     <<Some(<<"t1">>), "u2", TextWhy, Some(CommandsCircle)>>,
     <<Some(<<>>), "u1", TextWhy, Some(CommandsLine)>>,
     <<Some(<<>>), "u2", TextArea, None>>}

\* Session ids get_or_create_session, get_session_history and clear_session
\* are called with.
TutorSessionIds == {None, Some(<<>>), Some(<<"t1">>)}

\* The session ids a session can be stored under.
StoredSessionIds ==
    {<<"t1">>} \cup {<<"session", user_id, uuid>> : user_id \in Users, uuid \in Uuids}

\* Truth value of an Optional list: None and [] are false.
TruthyList(o) == o # None /\ TheVal(o) # <<>>

\* str.strip() of a text: the blanks at both ends go.
RECURSIVE strip(_)
strip(text) ==
    IF text # <<>> /\ Head(text) = " " THEN strip(Tail(text))
    ELSE IF text # <<>> /\ text[Len(text)] = " " THEN strip(SubSeq(text, 1, Len(text) - 1))
    ELSE text

\* SessionContext.__init__.  created_at, updated_at and the id and timestamp
\* of a message are fresh values that nothing reads back.
SessionContext(session_id, user_id) ==
    [session_id |-> session_id, user_id |-> user_id, messages |-> <<>>,
     last_visual_commands |-> <<>>]

\* SessionContext.add_message: the session after the call; the message is
\* the last of messages.
add_message(session, message) ==
    [session EXCEPT !.messages = Append(@, message)]

\* SessionContext.get_context_window.
session_context_window(session, max_messages) ==
    PySliceFrom(session.messages, 0 - max_messages)

\* Mutant of get_or_create_session: the welcome message is not added.
get_or_create_session_no_welcome(store, user_id, session_id, uuid) ==
    IF TruthyId(session_id) /\ TheVal(session_id) \in DOMAIN store
    THEN [store |-> store, session_id |-> TheVal(session_id)]
    ELSE LET new_session_id == IF TruthyId(session_id) THEN TheVal(session_id)
                               ELSE <<"session", user_id, uuid>>
         IN [store |-> [k \in DOMAIN store \cup {new_session_id} |->
                          IF k = new_session_id
                          THEN SessionContext(new_session_id, user_id)
                          ELSE store[k]],
             session_id |-> new_session_id]

\* TutoringService.get_or_create_session: the sessions after the call and
\* the id of the session returned.
get_or_create_session(store, user_id, session_id, uuid) ==
    IF TruthyId(session_id) /\ TheVal(session_id) \in DOMAIN store
    THEN [store |-> store, session_id |-> TheVal(session_id)]
    ELSE LET new_session_id == IF TruthyId(session_id) THEN TheVal(session_id)
                               ELSE <<"session", user_id, uuid>>
         IN [store |-> [k \in DOMAIN store \cup {new_session_id} |->
                          IF k = new_session_id
                          THEN add_message(SessionContext(new_session_id, user_id),
                                           [role |-> "assistant", content |-> WelcomeText])
                          ELSE store[k]],
             session_id |-> new_session_id]

\* _call_ai_engine, lines 165-170: the first draw_line command, or None.
first_draw_line(commands) ==
    IF \E i \in 1..Len(commands) : Get(commands[i], "type", None) = "draw_line"
    THEN Some(commands[CHOOSE i \in 1..Len(commands) :
                  /\ Get(commands[i], "type", None) = "draw_line"
                  /\ \A j \in 1..(i - 1) : Get(commands[j], "type", None) # "draw_line"])
    ELSE None

\* TutoringService._call_ai_engine.
call_ai_engine(query, context, session) ==
    LET normalized_query == strip(query)
        last_visual_commands == session.last_visual_commands
        helper_line == first_draw_line(last_visual_commands)
    IN IF /\ last_visual_commands # <<>>
          /\ \E kw \in WhyKeywords : Contains(normalized_query, kw)
       THEN [content |-> IF helper_line # None
                            /\ Get(TheVal(helper_line), "reason", <<>>) # <<>>
                         THEN TheVal(helper_line).reason
                         ELSE DefaultReason,
             reasoning |-> "explain", confidence |-> 90,
             visual_commands |-> last_visual_commands]
       ELSE [content |-> <<"answer">> \o query,
             reasoning |-> "chain", confidence |-> 85,
             visual_commands |-> <<DemoCommand>>]

\* TutoringService.process_user_message: the sessions after the call and the
\* dict returned.
process_user_message(store, session_id, user_id, content, modality, visual_commands, uuid) ==
    LET got == get_or_create_session(store, user_id, session_id, uuid)
        s0 == got.store[got.session_id]
        s1 == IF TruthyList(visual_commands)
              THEN [s0 EXCEPT !.last_visual_commands = TheVal(visual_commands)]
              ELSE s0
        s2 == add_message(s1, [role |-> "user", content |-> content, modality |-> modality])
        ai_response == call_ai_engine(content, session_context_window(s2, 10), s2)
        s3 == add_message(s2, [role |-> "assistant", content |-> ai_response.content,
                               reasoning |-> ai_response.reasoning,
                               confidence |-> ai_response.confidence,
                               visual_commands |-> ai_response.visual_commands])
        s4 == IF ai_response.visual_commands # <<>>
              THEN [s3 EXCEPT !.last_visual_commands = ai_response.visual_commands]
              ELSE s3
    IN [store |-> [got.store EXCEPT ![got.session_id] = s4],
        ret |-> [session_id |-> got.session_id,
                 content |-> ai_response.content,
                 reasoning |-> ai_response.reasoning]]

\* TutoringService.get_session_history.
get_session_history(store, session_id) ==
    IF session_id \in DOMAIN store THEN Some(store[session_id]) ELSE None

\* TutoringService.clear_session: the sessions after the call.
clear_session(store, session_id) ==
    [k \in DOMAIN store \ {session_id} |-> store[k]]

\* A call may create a session: there is room for it, and its uuid is new.
CanCreate(session_id, user_id, uuid) ==
    \/ TruthyId(session_id) /\ TheVal(session_id) \in DOMAIN sessions
    \/ /\ Cardinality(DOMAIN sessions) < MaxSessions
       /\ <<"session", user_id, uuid>> \notin DOMAIN sessions

TutorGetOrCreateSession(user_id, session_id, uuid) ==
    /\ CanCreate(session_id, user_id, uuid)
    /\ LET got == get_or_create_session(sessions, user_id, session_id, uuid)
       IN /\ sessions' = got.store
          /\ last' = [op |-> "get_or_create_session", user_id |-> user_id,
                      session_id |-> session_id, ret |-> got.store[got.session_id]]
    /\ UNCHANGED <<core, guidance, realtime>>

\* _call_ai_engine awaits nothing, so the call runs to its end in one step.
TutorProcessUserMessage(session_id, user_id, content, visual_commands, uuid) ==
    /\ CanCreate(session_id, user_id, uuid)
    /\ (TruthyId(session_id) /\ TheVal(session_id) \in DOMAIN sessions) =>
           Len(sessions[TheVal(session_id)].messages) + 2 <= MaxMessages
    /\ LET done == process_user_message(sessions, session_id, user_id, content,
                                        "text", visual_commands, uuid)
       IN /\ sessions' = done.store
          /\ last' = [op |-> "process_user_message", user_id |-> user_id,
                      session_id |-> session_id, content |-> content,
                      visual_commands |-> visual_commands, ret |-> done.ret]
    /\ UNCHANGED <<core, guidance, realtime>>

TutorGetSessionHistory(session_id) ==
    /\ last' = [op |-> "get_session_history", session_id |-> session_id,
                ret |-> get_session_history(sessions, session_id)]
    /\ UNCHANGED <<core, others>>

TutorClearSession(session_id) ==
    /\ sessions' = clear_session(sessions, session_id)
    /\ last' = [op |-> "clear_session", session_id |-> session_id,
                ret |-> (session_id \in DOMAIN sessions)]
    /\ UNCHANGED <<core, guidance, realtime>>

NextTutoring ==
    \/ \E user_id \in Users, session_id \in TutorSessionIds, uuid \in Uuids :
          TutorGetOrCreateSession(user_id, session_id, uuid)
    \/ \E a \in ProcessArgs, uuid \in Uuids :
          TutorProcessUserMessage(a[1], a[2], a[3], a[4], uuid)
    \/ \E session_id \in StoredSessionIds : TutorGetSessionHistory(session_id)
    \/ \E session_id \in StoredSessionIds : TutorClearSession(session_id)

SpecTutoring == Init /\ [][NextTutoring]_vars

\* ------------------------------------------------------------------- claims
TurnIds(st) == {st.turns[k].turn_id : k \in 1..Len(st.turns)}

\* C1: in every state of the store the turn at position k of turns (counting
\* from 1) has turn_id k, whatever add_turn, mark_visual_referenced,
\* resolve_visual_reference and get_context_window calls came before.
C1_TurnIdsDense ==
    \A s \in DOMAIN states :
        \A k \in 1..Len(states[s].turns) : states[s].turns[k].turn_id = k

\* Three turns were added, a reference was marked in between, and a context
\* window has just been read.
C1_Witness ==
    /\ last.op = "get_context_window"
    /\ Len(states[last.session_id].turns) >= 3
    /\ MarksIn(states[last.session_id]) > 0

ValidIndex(index, pool) ==
    index = None \/ (0 <= TheVal(index) /\ TheVal(index) < Len(pool))

\* C2: active_visual_index is None or a valid Python index into
\* visual_contexts, after any add_turn and mark_visual_referenced calls.
C2_ActiveVisualIndexValid ==
    \A s \in DOMAIN states :
        ValidIndex(states[s].active_visual_index, states[s].visual_contexts)

\* mark_visual_referenced has just been called with an index out of range on
\* a state whose pointer is set.
C2_Witness ==
    /\ last.op = "mark_visual_referenced"
    /\ ~(0 <= last.visual_index
         /\ last.visual_index < Len(states[last.session_id].visual_contexts))
    /\ states[last.session_id].active_visual_index # None

AllRefsAreTurns(st, pool) ==
    \A i \in 1..Len(pool) :
        \A j \in 1..Len(pool[i].referenced_in_turns) :
            pool[i].referenced_in_turns[j] \in TurnIds(st)

\* C3: every id in the referenced_in_turns of a visual or audio context is
\* the turn_id of a turn in turns.
C3_ReferencedTurnsExist ==
    \A s \in DOMAIN states :
        /\ AllRefsAreTurns(states[s], states[s].visual_contexts)
        /\ AllRefsAreTurns(states[s], states[s].audio_contexts)

\* The turn ids of the recent_turns of a window, and whether a returned asset
\* is referenced by one of them.
WindowTurnIds(w) == {w.recent_turns[k].turn_id : k \in 1..Len(w.recent_turns)}
ReferencedInWindow(asset, w) ==
    \E j \in 1..Len(asset.referenced_in_turns) :
        asset.referenced_in_turns[j] \in WindowTurnIds(w)

PoolsReferencedInWindow(w) ==
    /\ \A k \in 1..Len(w.visual_contexts) : ReferencedInWindow(w.visual_contexts[k], w)
    /\ \A k \in 1..Len(w.audio_contexts) : ReferencedInWindow(w.audio_contexts[k], w)

\* C4 as claimed: every asset get_context_window returns, in visual_contexts,
\* in audio_contexts and as active_visual, is referenced by a turn of the
\* returned recent_turns.
C4_WindowContainment ==
    last.op = "get_context_window" =>
        /\ PoolsReferencedInWindow(last.ret)
        /\ last.ret.active_visual # None =>
              ReferencedInWindow(TheVal(last.ret.active_visual), last.ret)

\* C4 as amended: every asset get_context_window returns in visual_contexts
\* and in audio_contexts is referenced by a turn of the returned
\* recent_turns.
C4_WindowContainmentPools ==
    last.op = "get_context_window" => PoolsReferencedInWindow(last.ret)

\* A window that leaves out a turn and an image, and returns an image and an
\* audio clip.
C4_Witness ==
    /\ last.op = "get_context_window"
    /\ last.max_turns >= 1
    /\ Len(last.ret.recent_turns) < Len(states[last.session_id].turns)
    /\ Len(last.ret.visual_contexts) > 0
    /\ Len(last.ret.visual_contexts) < Len(states[last.session_id].visual_contexts)
    /\ Len(last.ret.audio_contexts) > 0

\* C5: get_context_window with max_turns <= 0 returns an empty recent_turns.
C5_NonPositiveMaxTurnsEmpty ==
    (last.op = "get_context_window" /\ last.max_turns <= 0) =>
        last.ret.recent_turns = <<>>

\* The queries of Queries by the markers they contain, read off the texts.
OrdinalFirstQueries == {QFirst, QBoth}
ProximalQueries == {QThat, QJustNow, QBoth}

\* C6: resolve_visual_reference returns nothing on an empty pool, else the
\* first image for a query with an ordinal-first marker, else the active
\* image for a query with a proximal marker, else the last image; with three
\* images and the second active the three cases give 0, 1 and 2.
C6_ResolutionPrecedence ==
    last.op = "resolve_visual_reference" =>
        LET st == states[last.session_id]
            n == Len(st.visual_contexts)
            q == last.text_query
        IN /\ n = 0 => last.ret = None
           /\ (n > 0 /\ q \in OrdinalFirstQueries) => last.ret = Some(0)
           /\ (n > 0 /\ q \in ProximalQueries \ OrdinalFirstQueries) =>
                 (last.ret # None /\ last.ret = st.active_visual_index)
           /\ (n > 0 /\ q \notin ProximalQueries \cup OrdinalFirstQueries) =>
                 last.ret = Some(n - 1)
           /\ (n = 3 /\ st.active_visual_index = Some(1)) =>
                 /\ q = QFirst => last.ret = Some(0)
                 /\ q = QThat => last.ret = Some(1)
                 /\ q = QOther => last.ret = Some(2)

\* Three images, the second one active, and a query with both kinds of
\* marker has just been resolved.
C6_Witness ==
    /\ last.op = "resolve_visual_reference"
    /\ Len(states[last.session_id].visual_contexts) = 3
    /\ states[last.session_id].active_visual_index = Some(1)
    /\ last.text_query = QBoth
    /\ last.ret = Some(0)

\* C7: a state rebuilt by from_dict from its get_full_state has the same
\* turns, pools and pointers.
C7_RoundTrip ==
    \A s \in DOMAIN states :
        LET st == states[s]
            back == from_dict(get_full_state(st), now)
        IN /\ back.turns = st.turns
           /\ back.visual_contexts = st.visual_contexts
           /\ back.audio_contexts = st.audio_contexts
           /\ back.active_visual_index = st.active_visual_index
           /\ back.active_audio_index = st.active_audio_index

\* C8: a get_or_create_state call for a session the store knows leaves the
\* store as it is (the turns, pools, pointers and user_id of the session
\* included) and returns the store's entry.
C8_GetOrCreateIdempotent ==
    [][(last'.op = "get_or_create_state" /\ last'.session_id \in DOMAIN states) =>
          (states' = states /\ last'.ret = states[last'.session_id])]_vars

\* get_or_create_state has just been called, with another user, for a
\* session that has turns.
C8_Witness ==
    /\ last.op = "get_or_create_state"
    /\ last.user_id # last.ret.user_id
    /\ Len(last.ret.turns) > 0

\* C9: the step that completes a query whose image was found by reference
\* resolution leaves the length of visual_contexts as it was.
C9_FollowUpAddsNoVisual ==
    [][\A t \in Tasks :
          (/\ tasks[t].pc = "reason"
           /\ tasks[t].resolved # None
           /\ tasks'[t].pc = "idle"
           /\ last'.outcome = "returned") =>
              Len(states'[tasks[t].session_id].visual_contexts) =
                  Len(states[tasks[t].session_id].visual_contexts)]_vars

\* C10: the step that ends a query, by a return or by a provider failure,
\* adds one turn to the session's log.
C10_EveryQueryAppendsOneTurn ==
    [][\A t \in Tasks :
          (tasks[t].pc \in {"fuse", "reason"} /\ tasks'[t].pc = "idle") =>
              Len(states'[tasks[t].session_id].turns) =
                  Len(states[tasks[t].session_id].turns) + 1]_vars

\* C11: right after an add_turn whose user_input carries a non-empty image,
\* active_visual_index is the index of the last visual context.
C11_NewImageBecomesActive ==
    (last.op = "add_turn" /\ Truthy(Get(last.user_input, "image", None))) =>
        states[last.session_id].active_visual_index =
            Some(Len(states[last.session_id].visual_contexts) - 1)

\* An image has just been added after an earlier image was marked, which had
\* moved the pointer.
C11_Witness ==
    /\ last.op = "add_turn"
    /\ Truthy(Get(last.user_input, "image", None))
    /\ Len(states[last.session_id].visual_contexts) >= 2
    /\ MarksIn(states[last.session_id]) > 0

\* C12: with two process_multimodal_query calls interleaving at the provider
\* awaits, the turn at position k has turn_id k (so the ids are distinct and
\* dense) and both active pointers are None or valid indices.
C12_ConcurrentQueriesKeepIdsAndPointers ==
    \A s \in DOMAIN states :
        LET st == states[s]
        IN /\ \A k \in 1..Len(st.turns) : st.turns[k].turn_id = k
           /\ \A j, k \in 1..Len(st.turns) :
                 j # k => st.turns[j].turn_id # st.turns[k].turn_id
           /\ ValidIndex(st.active_visual_index, st.visual_contexts)
           /\ ValidIndex(st.active_audio_index, st.audio_contexts)

\* A query has just returned while another one of the same session waits for
\* the Reasoning Provider with a context window built before this turn.
C12_Witness ==
    /\ last.op = "process_multimodal_query"
    /\ last.outcome = "returned"
    /\ \E t \in Tasks :
          /\ tasks[t].pc = "reason"
          /\ tasks[t].session_id = last.ret.session_id
          /\ Len(TheVal(tasks[t].context_window).recent_turns) < last.ret.total_turns
    /\ last.ret.total_turns >= 2
    /\ states[last.ret.session_id].active_audio_index # None

\* C13: a resolve_visual_reference call leaves every state of the store as
\* it was.
C13_ResolveChangesNothing ==
    [][last'.op = "resolve_visual_reference" => states' = states]_vars

\* A reference has just been resolved to an image that is not the active
\* one.
C13_Witness ==
    /\ last.op = "resolve_visual_reference"
    /\ last.ret # None
    /\ last.ret # states[last.session_id].active_visual_index

IndexInRange(st, visual_index) ==
    0 <= visual_index /\ visual_index < Len(st.visual_contexts)

\* C14: a mark_visual_referenced call with an index out of range leaves the
\* state as it was.
C14_MarkOutOfRangeIsNoOp ==
    [][(/\ last'.op = "mark_visual_referenced"
        /\ ~IndexInRange(states[last'.session_id], last'.visual_index)) =>
           states' = states]_vars

\* mark_visual_referenced has just been called with the length of a
\* non-empty pool as index.
C14_Witness ==
    /\ last.op = "mark_visual_referenced"
    /\ last.visual_index = Len(states[last.session_id].visual_contexts)
    /\ last.visual_index > 0

\* C15: a mark_visual_referenced(i, t) call with i in range appends t to the
\* referenced_in_turns of visual context i, sets active_visual_index to i,
\* and leaves the turn log, the audio pool, active_audio_index and every
\* other visual context as they were.
C15_MarkInRangeEffect ==
    [][(/\ last'.op = "mark_visual_referenced"
        /\ IndexInRange(states[last'.session_id], last'.visual_index)) =>
           LET old == states[last'.session_id]
               new == states'[last'.session_id]
               i == last'.visual_index + 1
           IN /\ new.visual_contexts[i].referenced_in_turns =
                    Append(old.visual_contexts[i].referenced_in_turns, last'.turn_id)
              /\ new.visual_contexts[i].image_url = old.visual_contexts[i].image_url
              /\ new.active_visual_index = Some(last'.visual_index)
              /\ Len(new.visual_contexts) = Len(old.visual_contexts)
              /\ \A k \in 1..Len(old.visual_contexts) :
                    k # i => new.visual_contexts[k] = old.visual_contexts[k]
              /\ new.turns = old.turns
              /\ new.audio_contexts = old.audio_contexts
              /\ new.active_audio_index = old.active_audio_index]_vars

\* The first of two images has just been marked in a state with an active
\* audio clip.
C15_Witness ==
    /\ last.op = "mark_visual_referenced"
    /\ last.visual_index = 0
    /\ Len(states[last.session_id].visual_contexts) >= 2
    /\ states[last.session_id].active_audio_index # None

\* C16: right after an add_turn call and right after a mark_visual_referenced
\* call with an index in range, updated_at is the clock reading of the call.
C16_UpdatedAtRefreshed ==
    (\/ last.op = "add_turn"
     \/ /\ last.op = "mark_visual_referenced"
        /\ IndexInRange(states[last.session_id], last.visual_index)) =>
        states[last.session_id].updated_at = now

IsPrefix(a, b) == Len(a) <= Len(b) /\ SubSeq(b, 1, Len(a)) = a

PoolGrows(old, new) ==
    /\ Len(old) <= Len(new)
    /\ \A k \in 1..Len(old) :
          IsPrefix(old[k].referenced_in_turns, new[k].referenced_in_turns)

\* C17: in every step the turn log is a prefix of the new one, both pools
\* keep their contexts in place with the same locator, and every
\* referenced_in_turns list is a prefix of the new one.
C17_AppendOnly ==
    [][\A s \in DOMAIN states :
          /\ s \in DOMAIN states'
          /\ IsPrefix(states[s].turns, states'[s].turns)
          /\ PoolGrows(states[s].visual_contexts, states'[s].visual_contexts)
          /\ PoolGrows(states[s].audio_contexts, states'[s].audio_contexts)
          /\ \A k \in 1..Len(states[s].visual_contexts) :
                states'[s].visual_contexts[k].image_url =
                    states[s].visual_contexts[k].image_url
          /\ \A k \in 1..Len(states[s].audio_contexts) :
                states'[s].audio_contexts[k].audio_url =
                    states[s].audio_contexts[k].audio_url]_vars

\* An image of a state with two turns and an audio clip has just been
\* marked.
C17_Witness ==
    /\ last.op = "mark_visual_referenced"
    /\ IndexInRange(states[last.session_id], last.visual_index)
    /\ Len(states[last.session_id].turns) >= 2
    /\ Len(states[last.session_id].audio_contexts) >= 1

\* What the same call returns with include_visual_context = True.
WindowWithVisuals ==
    get_context_window(states[last.session_id], last.max_turns, TRUE)

\* C18 as claimed: with include_visual_context = False the window holds no
\* visual asset, neither in visual_contexts nor as active_visual, and its
\* audio_contexts and recent_turns are those of the call with True.
C18_NoVisualAssetWhenExcluded ==
    (last.op = "get_context_window" /\ ~last.include_visual_context) =>
        /\ last.ret.visual_contexts = <<>>
        /\ last.ret.active_visual = None
        /\ last.ret.audio_contexts = WindowWithVisuals.audio_contexts
        /\ last.ret.recent_turns = WindowWithVisuals.recent_turns

\* C18 as amended: with include_visual_context = False the visual_contexts
\* list of the window is empty, and its audio_contexts and recent_turns are
\* those of the call with True.
C18_FlagGatesVisualListOnly ==
    (last.op = "get_context_window" /\ ~last.include_visual_context) =>
        /\ last.ret.visual_contexts = <<>>
        /\ last.ret.audio_contexts = WindowWithVisuals.audio_contexts
        /\ last.ret.recent_turns = WindowWithVisuals.recent_turns

\* A window has just been read without visual contexts where the call with
\* True returns an image and an audio clip.
C18_Witness ==
    /\ last.op = "get_context_window"
    /\ ~last.include_visual_context
    /\ Len(WindowWithVisuals.visual_contexts) > 0
    /\ Len(last.ret.audio_contexts) > 0

\* C19: a load_state call returns the store's own entry for a known session
\* and None for an unknown one, and leaves the store as it was.
C19_LoadStateReturnsResident ==
    [][last'.op = "load_state" =>
          /\ states' = states
          /\ last'.session_id \in DOMAIN states =>
                last'.ret = Some(states[last'.session_id])
          /\ last'.session_id \notin DOMAIN states => last'.ret = None]_vars

\* A session with turns has just been loaded.
C19_Witness ==
    /\ last.op = "load_state"
    /\ last.ret # None
    /\ Len(TheVal(last.ret).turns) > 0

\* The geometry objects of the steps of a guidance result.
GeometryObjectsOf(result) ==
    {result.steps[k].geometry.objects[j] :
        <<k, j>> \in {kj \in (1..Len(result.steps)) \X (1..4) :
            /\ "geometry" \in DOMAIN result.steps[kj[1]]
            /\ kj[2] <= Len(result.steps[kj[1]].geometry.objects)}}

\* C20: every geometry object of the steps returned for a text question, by
\* the AI engine or by the backend's fallback, has a type among line, point,
\* face and polygon and a non-empty coords list of vertices with three
\* coordinates each.
C20_GeometryObjectsWellFormed ==
    (last.op \in {"generate_guidance", "capture_text"}) =>
        \A obj \in GeometryObjectsOf(last.ret) :
            /\ obj.type \in {"line", "point", "face", "polygon"}
            /\ Len(obj.coords) > 0
            /\ \A v \in 1..Len(obj.coords) : Len(obj.coords[v]) = 3

\* The backend has just passed on the engine's steps for a geometry
\* question: the four objects of the demonstration diagram.
C20_Witness ==
    /\ last.op = "capture_text"
    /\ last.engine = "200"
    /\ Cardinality(GeometryObjectsOf(last.ret)) = 4

\* The keys of a guidance structure are present and steps is not empty.
IsGuidanceStructure(ret) ==
    /\ {"session_id", "task_id", "steps"} \subseteq DOMAIN ret
    /\ Len(ret.steps) > 0

\* C21: capture_text and send_message always answer with a guidance
\* structure, whatever the engine call did; a fallback answer of send_message
\* carries the session_id of the message when it has one, and a step of type
\* detail for its step_id when it has one.
C21_AlwaysGuidanceStructure ==
    (last.op \in {"capture_text", "send_message"}) =>
        /\ IsGuidanceStructure(last.ret)
        /\ (last.op = "send_message" /\ last.engine # "200") =>
            /\ TruthyId(last.session_id) =>
                   last.ret.session_id = TheVal(last.session_id)
            /\ Truthy(last.step_id) =>
                   \E k \in 1..Len(last.ret.steps) :
                       /\ last.ret.steps[k].type = "detail"
                       /\ last.ret.steps[k].step_id = <<TheVal(last.step_id), "_detail">>

\* send_message has answered from the fallback, after the engine call raised,
\* a message with a session id and a step id.
C21_Witness ==
    /\ last.op = "send_message"
    /\ last.engine = "raise"
    /\ last.session_id = Some(<<"sess_x">>)
    /\ last.step_id = Some("step_draw_diagram")
    /\ last.ret.session_id = <<"sess_x">>
    /\ Len(last.ret.steps) = 4
    /\ Cardinality(DOMAIN session_store) = MaxStored

Min(a, b) == IF a < b THEN a ELSE b

\* C22: for max_turns >= 1, recent_turns is exactly the last
\* min(max_turns, len(turns)) turns of the log, in the order of the log
\* (increasing turn_id); all the turns when max_turns exceeds len(turns).
C22_WindowIsLastTurns ==
    (last.op = "get_context_window" /\ last.max_turns >= 1) =>
        LET turns == states[last.session_id].turns
            n == Len(turns)
            k == Min(last.max_turns, n)
            recent == last.ret.recent_turns
        IN /\ Len(recent) = k
           /\ \A i \in 1..k : recent[i] = ReasoningTurn_to_dict(turns[n - k + i])
           /\ \A i \in 1..(k - 1) : recent[i].turn_id < recent[i + 1].turn_id
           /\ (last.max_turns > n) => Len(recent) = n

\* A window of two turns was cut from a log of three: turns 2 and 3.
C22_Witness ==
    /\ last.op = "get_context_window"
    /\ last.max_turns = 2
    /\ Len(states[last.session_id].turns) = 3
    /\ Len(last.ret.recent_turns) = 2
    /\ last.ret.recent_turns[1].turn_id = 2
    /\ last.ret.recent_turns[2].turn_id = 3

NoDuplicates(list) ==
    \A i \in 1..Len(list) : \A j \in 1..Len(list) : list[i] = list[j] => i = j

\* C23: referenced_in_turns behaves as a set of turn ids: in every state no
\* turn id occurs twice in the referenced_in_turns of one asset, so marking
\* an asset with a turn id it already holds changes nothing.
C23_ReferencesAreASet ==
    \A s \in DOMAIN states :
        /\ \A k \in 1..Len(states[s].visual_contexts) :
              NoDuplicates(states[s].visual_contexts[k].referenced_in_turns)
        /\ \A k \in 1..Len(states[s].audio_contexts) :
              NoDuplicates(states[s].audio_contexts[k].referenced_in_turns)

\* C24: an add_turn whose user_input carries a non-empty audio appends exactly
\* one AudioContext, holding the clip and the id of the new turn in
\* referenced_in_turns, and sets active_audio_index to the last index of
\* audio_contexts; in every state active_audio_index is None or a valid index
\* into audio_contexts.
C24_AudioHandledLikeImages ==
    /\ [](\A s \in DOMAIN states :
            ValidIndex(states[s].active_audio_index, states[s].audio_contexts))
    /\ [][(last'.op = "add_turn" /\ Truthy(Get(last'.user_input, "audio", None))) =>
            LET old == states[last'.session_id]
                new == states'[last'.session_id]
                n == Len(new.audio_contexts)
            IN /\ n = Len(old.audio_contexts) + 1
               /\ SubSeq(new.audio_contexts, 1, n - 1) = old.audio_contexts
               /\ new.audio_contexts[n].audio_url = TheVal(last'.user_input["audio"])
               /\ new.audio_contexts[n].referenced_in_turns = <<last'.ret.turn_id>>
               /\ last'.ret.turn_id = Len(new.turns)
               /\ new.active_audio_index = Some(n - 1)]_vars

\* A second audio clip has just been added, in the third turn.
C24_Witness ==
    /\ last.op = "add_turn"
    /\ Truthy(Get(last.user_input, "audio", None))
    /\ Len(states[last.session_id].audio_contexts) = 2
    /\ Len(states[last.session_id].turns) = 3
    /\ states[last.session_id].active_audio_index = Some(1)

\* The turn ids of the turns of a context window.
WindowIds(window) == {window.recent_turns[k].turn_id : k \in 1..Len(window.recent_turns)}

\* C25: one process_multimodal_query runs resolve, fuse, build the context
\* window, reason, add_turn, save_state in this order: the window passed to
\* the Reasoning Provider was built before the turn of the query was
\* appended and does not contain it, and save_state runs once, after
\* add_turn, in the step that completes the query and in no other.
C25_PipelineStepOrder ==
    [][\A t \in Tasks :
        /\ (tasks[t].pc = "idle" /\ tasks'[t].pc # "idle") =>
              /\ tasks'[t].pc = "fuse"
              /\ last'.calls[Len(last'.calls)] = "fuse_modalities"
              /\ \A k \in 1..Len(last'.calls) :
                    last'.calls[k] = "resolve_visual_reference" => k < Len(last'.calls)
        /\ (tasks'[t].pc = "reason" /\ tasks[t].pc # "reason") =>
              /\ tasks[t].pc = "fuse"
              /\ last'.calls = <<"get_context_window", "reason">>
              /\ states' = states
        /\ (tasks[t].pc # "idle" /\ tasks'[t].pc = "idle") =>
              IF last'.outcome = "returned"
              THEN /\ tasks[t].pc = "reason"
                   /\ last'.calls = <<"add_turn", "save_state">>
                   /\ last'.context_window = TheVal(tasks[t].context_window)
                   /\ last'.ret.turn_id \notin WindowIds(last'.context_window)
                   /\ \A id \in WindowIds(last'.context_window) : id < last'.ret.turn_id
                   /\ Len(states'[tasks[t].session_id].turns) =
                          Len(states[tasks[t].session_id].turns) + 1
              ELSE /\ last'.calls = <<>>
                   /\ states' = states]_vars

\* A query has returned as turn 2 with a window that held turn 1.
C25_Witness ==
    /\ last.op = "process_multimodal_query"
    /\ last.outcome = "returned"
    /\ last.ret.turn_id = 2
    /\ WindowIds(last.context_window) = {1}

\* C28: every turn with id n > 1 that process_multimodal_query appends was
\* answered from a context window that contained turn n - 1, also when two
\* queries of one session interleave at the provider awaits.
C28_NoStaleWindow ==
    (/\ last.op = "process_multimodal_query"
     /\ last.outcome = "returned"
     /\ last.ret.turn_id > 1) =>
        (last.ret.turn_id - 1) \in WindowIds(last.context_window)

\* C26: an add_turn whose user_input has no image and no audio, the
\* user_input with no field at all included, returns a turn, appends exactly
\* that turn to the log, and leaves both pools (so every referenced_in_turns)
\* and both active pointers as they were.
C26_PlainTurnTouchesNoAsset ==
    [][(/\ last'.op = "add_turn"
        /\ ~Truthy(Get(last'.user_input, "image", None))
        /\ ~Truthy(Get(last'.user_input, "audio", None))) =>
           LET old == states[last'.session_id]
               new == states'[last'.session_id]
           IN /\ new.turns = Append(old.turns, last'.ret)
              /\ last'.ret.turn_id = Len(old.turns) + 1
              /\ last'.ret.user_input = last'.user_input
              /\ new.visual_contexts = old.visual_contexts
              /\ new.audio_contexts = old.audio_contexts
              /\ new.active_visual_index = old.active_visual_index
              /\ new.active_audio_index = old.active_audio_index]_vars

\* A turn with an empty user_input has just been added to a state in which
\* both pointers are set.
C26_Witness ==
    /\ last.op = "add_turn"
    /\ last.user_input = EmptyDict
    /\ states[last.session_id].active_visual_index # None
    /\ states[last.session_id].active_audio_index # None
    /\ Len(states[last.session_id].turns) >= 2

\* C27 as claimed: in every state active_visual_index is set exactly when
\* visual_contexts is not empty; so every query with a proximal marker on a
\* non-empty pool is answered with the asset at active_visual_index, which
\* is set, and not by the default rule.
C27_PointerSetIffPoolNonEmpty ==
    /\ \A s \in DOMAIN states :
          (states[s].active_visual_index # None) <=> (Len(states[s].visual_contexts) > 0)
    /\ (/\ last.op = "resolve_visual_reference"
        /\ Len(states[last.session_id].visual_contexts) > 0
        /\ has_proximal_marker(last.text_query)) =>
           /\ states[last.session_id].active_visual_index # None
           /\ last.ret = states[last.session_id].active_visual_index

\* C27 as amended: in every state active_visual_index is set exactly when
\* visual_contexts is not empty; a query with a proximal marker on a
\* non-empty pool is answered with the first asset when it also has an
\* ordinal-first marker, and otherwise with the asset at
\* active_visual_index, which is set; the default rule is never reached.
C27_ProximalUsesPointerUnlessOrdinalFirst ==
    /\ \A s \in DOMAIN states :
          (states[s].active_visual_index # None) <=> (Len(states[s].visual_contexts) > 0)
    /\ (/\ last.op = "resolve_visual_reference"
        /\ Len(states[last.session_id].visual_contexts) > 0
        /\ has_proximal_marker(last.text_query)) =>
           /\ states[last.session_id].active_visual_index # None
           /\ last.ret = IF has_first_marker(last.text_query) THEN Some(0)
                         ELSE states[last.session_id].active_visual_index

\* A proximal query has just been resolved to the first of two images, the
\* active one after a mark, where the default rule gives the second.
C27_Witness ==
    /\ last.op = "resolve_visual_reference"
    /\ last.text_query = QJustNow
    /\ Len(states[last.session_id].visual_contexts) = 2
    /\ states[last.session_id].active_visual_index = Some(0)
    /\ last.ret = Some(0)

\* C29: ConnectionManager.disconnect never raises, also for a websocket that
\* send_personal_message has removed already while its user has another
\* open connection, and no user is mapped to an empty list of connections.
C29_DisconnectNeverRaises ==
    /\ (last.op = "disconnect") => ~last.raised /\ ~last.cleanup_raised
    /\ (last.op = "send_progress_update") => ~last.raised
    /\ \A user_id \in DOMAIN active_connections : active_connections[user_id] # <<>>

\* The log starts with the assistant's welcome and then alternates user,
\* assistant, ending with an assistant message.
LogAlternates(messages) ==
    /\ Len(messages) >= 1
    /\ messages[1].role = "assistant"
    /\ messages[1].content = WelcomeText
    /\ \A i \in 2..Len(messages) :
          messages[i].role = IF i % 2 = 0 THEN "user" ELSE "assistant"
    /\ Len(messages) % 2 = 1

\* The number of user messages of a log.
UserMessages(messages) ==
    Cardinality({i \in 1..Len(messages) : messages[i].role = "user"})

\* C30: every session's log is the welcome message followed by user,
\* assistant pairs, 1 + 2k entries for k user messages; a
\* process_user_message call appends the user message and the answer it
\* returns to the log of its session, which for an unknown or cleared
\* session_id is a new log holding the welcome message.
C30_LogAlternates ==
    /\ [](\A sid \in DOMAIN sessions :
            /\ LogAlternates(sessions[sid].messages)
            /\ Len(sessions[sid].messages) = 1 + 2 * UserMessages(sessions[sid].messages))
    /\ [][last'.op = "process_user_message" =>
            LET sid == last'.ret.session_id
                old == IF sid \in DOMAIN sessions THEN sessions[sid].messages
                       ELSE <<[role |-> "assistant", content |-> WelcomeText]>>
                new == sessions'[sid].messages
            IN /\ Len(new) = Len(old) + 2
               /\ SubSeq(new, 1, Len(old)) = old
               /\ new[Len(old) + 1].role = "user"
               /\ new[Len(old) + 1].content = last'.content
               /\ new[Len(old) + 2].role = "assistant"
               /\ new[Len(old) + 2].content = last'.ret.content]_vars

\* A message with an empty session id has just been processed, in a session
\* created for it, while session t1 holds two processed messages, the second
\* answered from the visual commands of the first.
C30_Witness ==
    /\ last.op = "process_user_message"
    /\ last.session_id = Some(<<>>)
    /\ Len(sessions[last.ret.session_id].messages) = 3
    /\ <<"t1">> \in DOMAIN sessions
    /\ Len(sessions[<<"t1">>].messages) = 5
    /\ sessions[<<"t1">>].messages[5].reasoning = "explain"

====
